---- MODULE Spec2Model ----
(***************************************************************************)
(* State-machine model of async_ip_rotator.AsyncApiGateway: one pool       *)
(* object, the provider's per-region REST-API lists, the per-region        *)
(* worker threads of start() and shutdown(), the scoped-lifetime variant   *)
(* and send().                                                             *)
(***************************************************************************)
EXTENDS Integers, Sequences, FiniteSets, TLC

\* ------------------------------------------------------------------ bounds
\* number of REST-API ids the provider hands out
MaxIds == 3
\* number of items the provider returns per get_rest_apis page
PageSize == 2
\* length of the site strings given to the constructor
MaxSiteLen == 4

\* ------------------------------------------------------- configuration data
DEFAULT_REGIONS == <<"us-east-1", "us-east-2", "us-west-1", "us-west-2">>

\* the regions the modelled account and pools use
Region1 == DEFAULT_REGIONS[1]
Region2 == DEFAULT_REGIONS[2]
RegionSet == {Region1, Region2}

\* the stored logical site
site == "https://example.com"

\* self.api_name = self.site + " - IP Rotate API"
api_name == <<site, " - IP Rotate API">>

\* new_api_name += " (Manual Deletion Required)"
ManualName == api_name \o <<" (Manual Deletion Required)">>

\* a REST API of another tool living in the same account
OtherName == <<"other-tool">>

\* ids the provider hands out on create_rest_api, in order
IdNames == <<"a1", "a2", "a3", "a4", "a5", "a6", "a7", "a8">>

\* id of a REST API that exists before the pool is used
SeedId == "z9"

\* the two slots of concurrently running start()/shutdown() invocations
Slots == {"c1", "c2"}

SlotBefore(c, d) == c = "c1" /\ d = "c2"

\* ----------------------------------------------------------- pure helpers
\* str.startswith
StartsWith(s, p) == Len(s) >= Len(p) /\ SubSeq(s, 1, Len(p)) = p

\* f"{id}.execute-api.{region}.amazonaws.com", as its dot-separated labels
EndpointOf(id, region) == <<id, "execute-api", region, "amazonaws", "com">>

\* ep.split(".")[0]
EndpointId(ep) == ep[1]

\* get_gateways_sync: follow the position token page by page
RECURSIVE GetPages(_, _)
GetPages(items, position) ==
  LET last == IF position + PageSize < Len(items) THEN position + PageSize
              ELSE Len(items)
      page == SubSeq(items, position + 1, last)
      next == IF last < Len(items) THEN last ELSE 0
  IN IF next = 0 THEN page ELSE page \o GetPages(items, next)

\* a listing that stops after the first page
get_gateways_first_page(items) ==
  SubSeq(items, 1, IF PageSize < Len(items) THEN PageSize ELSE Len(items))

get_gateways_sync(items) == GetPages(items, 0)

\* the index at which pat first occurs in s at or after k (0 when it does not)
RECURSIVE Find(_, _, _)
Find(s, pat, k) ==
  IF k + Len(pat) - 1 > Len(s) THEN 0
  ELSE IF SubSeq(s, k, k + Len(pat) - 1) = pat THEN k
  ELSE Find(s, pat, k + 1)

\* s.split(pat, 1)
Split1(s, pat) ==
  LET k == Find(s, pat, 1)
  IN IF k = 0 THEN <<s>>
     ELSE <<SubSeq(s, 1, k - 1), SubSeq(s, k + Len(pat), Len(s))>>

\* ipaddress.IPv4Address._string_from_ip_int: the four octets, high first,
\* of the 32-bit integer given as its two 16-bit halves <<high, low>>
string_from_ip_int(n) ==
  <<n[1] \div 256, n[1] % 256, n[2] \div 256, n[2] % 256>>

RemoveId(apis, id) == SelectSeq(apis, LAMBDA a : a.id # id)

SeqToSet(s) == {s[i] : i \in 1..Len(s)}

\* ------------------------------------------------------------------ state
VARIABLES
  regions,    \* self.regions
  provider,   \* region -> the REST APIs the provider lists there, in order
  enabled,    \* region -> whether the account may use the region
  nextId,     \* index of the next id the provider hands out
  endpoints,  \* self.endpoints
  calls,      \* slot -> a running start()/shutdown() and its region tasks
  ctx,        \* the `async with` block using the pool
  event,      \* what the last step handed back to its caller
  fresh       \* self.endpoints is what the last start(force=False) found and
              \* no REST API was created or deleted since it returned

vars ==
  <<regions, provider, enabled, nextId, endpoints, calls, ctx, event, fresh>>

NoArg == [given |-> FALSE, list |-> <<>>]
Given(l) == [given |-> TRUE, list |-> l]

NoTask == [pc |-> "done", res |-> "none", endpoint |-> <<>>, new |-> FALSE,
           created |-> FALSE,
           todo |-> <<>>, deleted |-> <<>>, limited |-> <<>>,
           failed |-> <<>>, sleeps |-> 0]

NoTasks == [i \in 1..Len(regions) |-> NoTask]

NoCall == [kind |-> "none", pc |-> "idle", owner |-> "caller",
           force |-> FALSE, rmd |-> FALSE, arg |-> NoArg,
           tasks |-> NoTasks, dispatched |-> 0, before |-> <<>>]

NoHeaders == [k \in {} |-> <<>>]

NoRequest == [method |-> "", url |-> <<>>, headers |-> NoHeaders]

NoEvent == [op |-> "none", arg |-> NoArg, force |-> FALSE, rmd |-> FALSE,
            dispatched |-> 0, tasks |-> NoTasks, value |-> <<>>,
            before |-> <<>>, error |-> "", sent |-> NoRequest,
            request |-> NoRequest]

\* ------------------------------------------------- decisions of the code
\* `if endpoints:` in start()
UseExplicit(arg) == arg.given /\ arg.list # <<>>

\* discovery that wants the exact name
RecognizedExact(name) == name = api_name

\* `api["name"].startswith(self.api_name)` in _init_gateway_sync
Recognized(name) == StartsWith(name, api_name)

\* deletion that accepts the prefix as discovery does
DeleteMatchesPrefix(name) == StartsWith(name, api_name)

\* `api["name"] == self.api_name` in _delete_gateway_sync
DeleteMatches(name) == name = api_name

\* the name given to a created REST API
NewApiName(rmd) == IF rmd THEN ManualName ELSE api_name

\* the first listed api the discovery scan returns (0 when none)
RECURSIVE Discover(_, _)
Discover(apis, k) ==
  IF k > Len(apis) THEN 0
  ELSE IF Recognized(apis[k].name) THEN k
  ELSE Discover(apis, k + 1)

\* a filter that tests `if endpoints and ...`: an empty allow-list counts as
\* none
RECURSIVE CandidatesTruthy(_, _)
CandidatesTruthy(apis, arg) ==
  IF apis = <<>> THEN <<>>
  ELSE LET api == Head(apis)
           endpoint_ids == {EndpointId(arg.list[j]) : j \in 1..Len(arg.list)}
           rest == CandidatesTruthy(Tail(apis), arg)
       IN IF DeleteMatches(api.name)
             /\ ~(arg.list # <<>> /\ api.id \notin endpoint_ids)
          THEN <<api.id>> \o rest ELSE rest

\* the ids the deletion loop attempts, in listing order
RECURSIVE Candidates(_, _)
Candidates(apis, arg) ==
  IF apis = <<>> THEN <<>>
  ELSE LET api == Head(apis)
           endpoint_ids == {EndpointId(arg.list[j]) : j \in 1..Len(arg.list)}
           rest == Candidates(Tail(apis), arg)
       IN IF DeleteMatches(api.name)
             /\ ~(arg.given /\ api.id \notin endpoint_ids)
          THEN <<api.id>> \o rest ELSE rest

\* a fan-in that gives up at the first failed task
RECURSIVE AppendResultsAbort(_, _, _)
AppendResultsAbort(eps, tasks, k) ==
  IF k > Len(regions) \/ tasks[k].res = "exc" THEN eps
  ELSE AppendResultsAbort(IF tasks[k].res = "ok"
                          THEN Append(eps, tasks[k].endpoint) ELSE eps,
                          tasks, k + 1)

\* the fan-in loop of start(): append the endpoint of every success result
RECURSIVE AppendResults(_, _, _)
AppendResults(eps, tasks, k) ==
  IF k > Len(regions) THEN eps
  ELSE AppendResults(IF tasks[k].res = "ok"
                     THEN Append(eps, tasks[k].endpoint) ELSE eps,
                     tasks, k + 1)

\* the fan-in loop of shutdown(): extend with every list result
RECURSIVE ExtendDeleted(_, _, _)
ExtendDeleted(ids, tasks, k) ==
  IF k > Len(regions) THEN ids
  ELSE ExtendDeleted(IF tasks[k].res = "ids"
                     THEN ids \o tasks[k].deleted ELSE ids,
                     tasks, k + 1)

\* an __aexit__ that returns a true value
AexitSwallows == TRUE

\* __aexit__ returns None: the body's exception is not suppressed
AexitSuppresses == FALSE

\* a new invocation takes the first slot that is not running
FreeSlot(c) ==
  /\ calls[c].pc # "running"
  /\ \A d \in Slots : calls[d].pc # "running" => ~SlotBefore(d, c)

\* a wait that ends when the first task has finished
AnyDone(c) == \E i \in 1..Len(regions) : calls[c].tasks[i].pc = "done"

\* `await asyncio.gather(*tasks, return_exceptions=True)` has returned
AllDone(c) == \A i \in 1..Len(regions) : calls[c].tasks[i].pc = "done"

\* a step of region task i of the invocation in slot c
TaskStep(c, i, t) ==
  /\ calls' = [calls EXCEPT ![c].tasks[i] = t]
  /\ event' = NoEvent

\* ------------------------------------------------------------------ Init
\* the state after __init__(site, regions), lines 53-62, with the account as
\* it is found: another tool's REST API in the first region, the second
\* region enabled or not
Construct(regs, accounts) ==
  /\ regions = regs
  /\ provider = [r \in RegionSet |->
                   IF r = Region1
                   THEN <<[id |-> SeedId, name |-> OtherName]>> ELSE <<>>]
  /\ enabled \in accounts
  /\ nextId = 1
  /\ endpoints = <<>>
  /\ calls = [c \in Slots |-> NoCall]
  /\ ctx = [pc |-> "out", bodyFailed |-> FALSE, shutdowns |-> 0,
            raised |-> FALSE]
  /\ event = NoEvent
  /\ fresh = FALSE

AllEnabled == [r \in RegionSet |-> TRUE]
OnlyFirstEnabled == [r \in RegionSet |-> r = Region1]

Init == Construct(<<Region1, Region2>>, {AllEnabled, OnlyFirstEnabled})

\* a pool configured with one region
InitOverlap == Construct(<<Region1>>, {AllEnabled})

\* a constructor that strips every trailing slash: site.rstrip("/")
RECURSIVE StripSiteAll(_)
StripSiteAll(s) ==
  IF s # <<>> /\ s[Len(s)] = "/"
  THEN StripSiteAll(SubSeq(s, 1, Len(s) - 1)) ELSE s

\* lines 53-56: self.site is site[:-1] when site.endswith("/"), else site
StripSite(s) ==
  IF s # <<>> /\ s[Len(s)] = "/" THEN SubSeq(s, 1, Len(s) - 1) ELSE s

\* AsyncApiGateway(s): a new pool whose self.site is handed back
NewPool(s) ==
  /\ event' = [NoEvent EXCEPT !.op = "init", !.before = s,
                              !.sent = [NoRequest EXCEPT !.url = s],
                              !.value = StripSite(s)]
  /\ endpoints' = <<>>
  /\ UNCHANGED <<regions, provider, enabled, nextId, calls, ctx, fresh>>

\* AsyncApiGateway(pool.site): a pool built from a stored site
Rebuild ==
  /\ event.op = "init"
  /\ event' = [NoEvent EXCEPT !.op = "init_again", !.before = event.before,
                              !.sent = [NoRequest EXCEPT !.url = event.value],
                              !.value = StripSite(event.value)]
  /\ endpoints' = <<>>
  /\ UNCHANGED <<regions, provider, enabled, nextId, calls, ctx, fresh>>

\* ------------------------------------------------------------- start()
\* lines 114-128: adopt the explicit list, or reset and fan out
StartInvoke(c, owner, force, rmd, arg) ==
  /\ FreeSlot(c)
  /\ IF UseExplicit(arg)
     THEN /\ endpoints' = arg.list
          /\ calls' = calls
          /\ event' = [NoEvent EXCEPT !.op = "start_return", !.arg = arg,
                                      !.force = force, !.rmd = rmd,
                                      !.value = endpoints']
     ELSE /\ endpoints' = <<>>
          /\ calls' = [calls EXCEPT ![c] =
               [NoCall EXCEPT !.kind = "start", !.pc = "running",
                              !.owner = owner, !.force = force, !.rmd = rmd,
                              !.arg = arg,
                              !.tasks = [i \in 1..Len(regions) |->
                                 [NoTask EXCEPT !.pc = IF force THEN "create"
                                                       ELSE "list"]],
                              !.dispatched = Len(regions),
                              !.before = IF fresh THEN endpoints ELSE <<>>]]
          /\ event' = NoEvent
  /\ fresh' = FALSE
  /\ UNCHANGED <<regions, provider, enabled, nextId>>

Start(c, force, rmd, arg) ==
  /\ StartInvoke(c, "caller", force, rmd, arg)
  /\ UNCHANGED ctx

\* a handler that turns every ClientError of the listing into a skip
ListFailureSkipsAll(code) == "skip"

\* lines 186-194: {"success": False} for UnrecognizedClientException, else
\* `raise e`
ListFailure(code) ==
  IF code = "UnrecognizedClientException" THEN "skip" ELSE "exc"

\* _init_gateway_sync, lines 183-201: list and scan
InitList(c, i, outcome) ==
  LET r == regions[i]
      t == calls[c].tasks[i]
      apis == get_gateways_sync(provider[r])
      k == Discover(apis, 1)
  IN /\ calls[c].kind = "start" /\ calls[c].pc = "running" /\ t.pc = "list"
     /\ (outcome = "UnrecognizedClientException") <=> ~enabled[r]
     /\ CASE outcome # "ok" ->
               TaskStep(c, i, [t EXCEPT !.pc = "done",
                                        !.res = ListFailure(outcome)])
          [] outcome = "ok" ->
               IF k # 0
               THEN TaskStep(c, i, [t EXCEPT !.pc = "done", !.res = "ok",
                                      !.endpoint = EndpointOf(apis[k].id, r),
                                      !.new = FALSE])
               ELSE TaskStep(c, i, [t EXCEPT !.pc = "create"])
     /\ UNCHANGED <<regions, provider, enabled, nextId, endpoints, ctx,
                    fresh>>

\* _init_gateway_sync, lines 202-266: create, configure and deploy
InitCreate(c, i, outcome) ==
  LET r == regions[i]
      t == calls[c].tasks[i]
      id == IdNames[nextId]
  IN /\ calls[c].kind = "start" /\ calls[c].pc = "running" /\ t.pc = "create"
     /\ ~enabled[r] => outcome = "create_failed"
     /\ CASE outcome = "create_failed" ->
               /\ TaskStep(c, i, [t EXCEPT !.pc = "done", !.res = "exc"])
               /\ UNCHANGED <<provider, nextId, fresh>>
          [] outcome = "configure_failed" ->
               /\ nextId <= MaxIds
               /\ provider' = [provider EXCEPT ![r] =
                    Append(@, [id |-> id, name |-> NewApiName(calls[c].rmd)])]
               /\ nextId' = nextId + 1
               /\ fresh' = FALSE
               /\ TaskStep(c, i, [t EXCEPT !.pc = "done", !.res = "exc",
                                     !.created = TRUE])
          [] outcome = "ok" ->
               /\ nextId <= MaxIds
               /\ provider' = [provider EXCEPT ![r] =
                    Append(@, [id |-> id, name |-> NewApiName(calls[c].rmd)])]
               /\ nextId' = nextId + 1
               /\ fresh' = FALSE
               /\ TaskStep(c, i, [t EXCEPT !.pc = "done", !.res = "ok",
                                     !.endpoint = EndpointOf(id, r),
                                     !.new = TRUE, !.created = TRUE])
     /\ UNCHANGED <<regions, enabled, endpoints, ctx>>

\* lines 129-143: all tasks finished, merge and return self.endpoints
StartFanIn(c) ==
  /\ calls[c].kind = "start" /\ calls[c].pc = "running" /\ AllDone(c)
  /\ endpoints' = AppendResults(endpoints, calls[c].tasks, 1)
  /\ calls' = [calls EXCEPT ![c] = NoCall]
  /\ event' = [NoEvent EXCEPT !.op = "start_return", !.arg = calls[c].arg,
                              !.force = calls[c].force, !.rmd = calls[c].rmd,
                              !.dispatched = calls[c].dispatched,
                              !.tasks = calls[c].tasks,
                              !.before = calls[c].before,
                              !.value = endpoints']
  /\ ctx' = IF calls[c].owner = "ctx" THEN [ctx EXCEPT !.pc = "body"] ELSE ctx
  /\ fresh' = (~calls[c].force
               /\ \A d \in Slots \ {c} : calls[d].pc # "running")
  /\ UNCHANGED <<regions, provider, enabled, nextId>>

\* ----------------------------------------------------------- shutdown()
\* lines 150-152: one delete task per configured region
ShutdownInvoke(c, owner, arg) ==
  /\ FreeSlot(c)
  /\ calls' = [calls EXCEPT ![c] =
       [NoCall EXCEPT !.kind = "shutdown", !.pc = "running",
                      !.owner = owner, !.arg = arg,
                      !.tasks = [i \in 1..Len(regions) |->
                                   [NoTask EXCEPT !.pc = "list"]],
                      !.dispatched = Len(regions)]]
  /\ event' = NoEvent
  /\ UNCHANGED <<regions, provider, enabled, nextId, endpoints, fresh>>

\* stands for the pool's own list passed as the allow-list:
\* shutdown(endpoints=pool.endpoints)
OwnList == Given(<<<<"self.endpoints">>>>)

Shutdown(c, arg) ==
  /\ ShutdownInvoke(c, "caller",
                    IF arg = OwnList THEN Given(endpoints) ELSE arg)
  /\ UNCHANGED ctx

\* _delete_gateway_sync, lines 286-297: list the region
DeleteList(c, i, outcome) ==
  LET r == regions[i]
      t == calls[c].tasks[i]
      todo == Candidates(get_gateways_sync(provider[r]), calls[c].arg)
  IN /\ calls[c].kind = "shutdown" /\ calls[c].pc = "running"
     /\ t.pc = "list"
     /\ (outcome = "UnrecognizedClientException") <=> ~enabled[r]
     /\ CASE outcome = "UnrecognizedClientException" ->
               TaskStep(c, i, [t EXCEPT !.pc = "done", !.res = "ids"])
          [] outcome = "OtherError" ->
               TaskStep(c, i, [t EXCEPT !.pc = "done", !.res = "exc"])
          [] outcome = "ok" ->
               IF todo = <<>>
               THEN TaskStep(c, i, [t EXCEPT !.pc = "done", !.res = "ids"])
               ELSE TaskStep(c, i, [t EXCEPT !.pc = "loop", !.todo = todo])
     /\ UNCHANGED <<regions, provider, enabled, nextId, endpoints, ctx,
                    fresh>>

\* the loop's state with its first candidate done
Advance(t) ==
  IF Tail(t.todo) = <<>>
  THEN [t EXCEPT !.pc = "done", !.res = "ids", !.todo = <<>>]
  ELSE [t EXCEPT !.todo = Tail(t.todo)]

\* a rate-limit handler that sleeps and tries the same api again
AfterRateLimitRetry(t, id) ==
  [t EXCEPT !.limited = Append(@, id), !.sleeps = @ + 1]

\* lines 306-308: TooManyRequestsException: sleep(1), then `continue`
AfterRateLimit(t, id) ==
  [Advance(t) EXCEPT !.limited = Append(@, id), !.sleeps = @ + 1]

\* a handler that re-raises the other ClientErrors, ending the pass
AfterDeleteErrorRaises(t, id) ==
  [t EXCEPT !.pc = "done", !.res = "exc", !.todo = <<>>]

\* lines 309-311: any other ClientError is printed and the loop goes on
AfterDeleteError(t, id) == [Advance(t) EXCEPT !.failed = Append(@, id)]

\* _delete_gateway_sync, lines 298-312: one iteration on a matching api
DeleteStep(c, i, outcome) ==
  LET r == regions[i]
      t == calls[c].tasks[i]
      id == Head(t.todo)
      after == Advance(t)
      present == \E k \in 1..Len(provider[r]) : provider[r][k].id = id
  IN /\ calls[c].kind = "shutdown" /\ calls[c].pc = "running"
     /\ t.pc = "loop"
     /\ CASE outcome = "ok" ->
               /\ present
               /\ provider' = [provider EXCEPT ![r] = RemoveId(@, id)]
               /\ fresh' = FALSE
               /\ TaskStep(c, i, [after EXCEPT !.deleted = Append(@, id)])
          [] outcome = "TooManyRequestsException" ->
               /\ TaskStep(c, i, AfterRateLimit(t, id))
               /\ UNCHANGED <<provider, fresh>>
          [] outcome = "OtherError" ->
               /\ TaskStep(c, i, AfterDeleteError(t, id))
               /\ UNCHANGED <<provider, fresh>>
     /\ UNCHANGED <<regions, enabled, nextId, endpoints, ctx>>

\* a shutdown() that empties the pool's list
EndpointsCleared(eps, deleted_ids) == <<>>

\* lines 153-163 hold no assignment to self.endpoints: the list shutdown()
\* leaves behind
EndpointsKept(eps, deleted_ids) == eps

\* lines 153-163: all tasks finished, aggregate the deleted ids
ShutdownFanIn(c) ==
  /\ calls[c].kind = "shutdown" /\ calls[c].pc = "running" /\ AllDone(c)
  /\ calls' = [calls EXCEPT ![c] = NoCall]
  /\ event' = [NoEvent EXCEPT !.op = "shutdown_return", !.arg = calls[c].arg,
                              !.dispatched = calls[c].dispatched,
                              !.tasks = calls[c].tasks,
                              !.value = ExtendDeleted(<<>>, calls[c].tasks, 1)]
  /\ ctx' = IF calls[c].owner = "ctx"
            THEN [ctx EXCEPT !.pc = "done",
                             !.raised = ctx.bodyFailed /\ ~AexitSuppresses]
            ELSE ctx
  /\ endpoints' = EndpointsKept(endpoints, event'.value)
  /\ UNCHANGED <<regions, provider, enabled, nextId, fresh>>

\* ------------------------------------------------------ scoped lifetime
\* __aenter__: await self.start()
Aenter(c) ==
  /\ ctx.pc \in {"out", "done"}
  /\ StartInvoke(c, "ctx", FALSE, FALSE, NoArg)
  /\ ctx' = [pc |-> "entering", bodyFailed |-> FALSE, shutdowns |-> 0,
             raised |-> FALSE]

\* the guarded body ends, normally or by raising; __aexit__ runs:
\* await self.shutdown()
Aexit(c, failed) ==
  /\ ctx.pc = "body"
  /\ ShutdownInvoke(c, "ctx", NoArg)
  /\ ctx' = [ctx EXCEPT !.pc = "exiting", !.bodyFailed = failed,
                        !.shutdowns = @ + 1]

\* ---------------------------------------------------------------- send()
SchemeSep == <<":", "/", "/">>
Slash == <<"/">>

\* a send() that splits the URL before it looks at the pool
SendFailureUrlFirst(eps, url) ==
  IF Len(Split1(url, SchemeSep)) # 2 THEN "ValueError"
  ELSE IF eps = <<>> THEN "RuntimeError"
  ELSE ""

\* lines 82-87: the failure send() raises before building the request
SendFailure(eps, url) ==
  IF eps = <<>> THEN "RuntimeError"
  ELSE IF Len(Split1(url, SchemeSep)) # 2 THEN "ValueError"
  ELSE ""

\* a rewrite that keeps the original host in front of the path
NewUrlKeepsHost(endpoint, url) ==
  <<"https://", endpoint, "/ProxyStage/", Split1(url, SchemeSep)[2]>>

\* lines 87-93: the rewritten URL
NewUrl(endpoint, url) ==
  LET site_rest == Split1(url, SchemeSep)[2]
      site_path == IF Find(site_rest, Slash, 1) # 0
                   THEN Split1(site_rest, Slash)[2] ELSE <<>>
  IN <<"https://", endpoint, "/ProxyStage/", site_path>>

\* lines 80-81 and 94-101: the outgoing headers
NewHeaders(endpoint, headers, ip) ==
  LET h0 == IF headers.given THEN headers.map ELSE NoHeaders
      x_forwarded_for == IF "X-Forwarded-For" \in DOMAIN h0
                         THEN h0["X-Forwarded-For"]
                         ELSE string_from_ip_int(ip)
      keys == ((DOMAIN h0) \ {"X-Forwarded-For"})
                \cup {"Host", "X-My-X-Forwarded-For"}
  IN [k \in keys |->
        IF k = "Host" THEN endpoint
        ELSE IF k = "X-My-X-Forwarded-For" THEN x_forwarded_for
        ELSE h0[k]]

\* send(method, url, headers=headers): choice() picks e, randint() picks ip,
\* the transport answers or fails
Send(method, url, headers, e, ip, transport) ==
  LET err == SendFailure(endpoints, url)
      sent == [method |-> method, url |-> url,
               headers |-> IF headers.given THEN headers.map ELSE NoHeaders]
  IN /\ IF err # ""
        THEN event' = [NoEvent EXCEPT !.op = "send", !.error = err,
                                      !.sent = sent]
        ELSE /\ e \in SeqToSet(endpoints)
             /\ event' = [NoEvent EXCEPT
                  !.op = "send", !.sent = sent,
                  !.error = IF transport = "ok" THEN "" ELSE "TransportError",
                  !.request = [method |-> method,
                               url |-> NewUrl(e, url),
                               headers |-> NewHeaders(e, headers, ip)]]
     /\ UNCHANGED <<regions, provider, enabled, nextId, endpoints, calls, ctx,
                    fresh>>

\* ---------------------------------------------------------- the callers
ListOutcomes == {"ok", "UnrecognizedClientException", "OtherError"}
CreateOutcomes == {"ok", "create_failed", "configure_failed"}
DeleteOutcomes == {"ok", "TooManyRequestsException", "OtherError"}

\* explicit endpoint lists a caller passes to start()
StartArgs ==
  {NoArg, Given(<<>>), Given(<<EndpointOf(IdNames[1], Region1)>>)}

\* allow-lists a caller passes to shutdown()
ShutdownArgs == {NoArg, Given(<<>>), OwnList}

\* callers using the slots S invoke start(force, rmd, endpoints) with
\* arguments from F, M, A and shutdown(endpoints) with arguments from D
Invoke(S, F, M, A, D) ==
  \/ \E c \in S, force \in F, rmd \in M, arg \in A :
       Start(c, force, rmd, arg)
  \/ \E c \in S, arg \in D : Shutdown(c, arg)

\* the worker threads and the fan-in of the invocations in the slots S
Work(S) ==
  \/ \E c \in S, i \in 1..Len(regions), o \in ListOutcomes :
       InitList(c, i, o)
  \/ \E c \in S, i \in 1..Len(regions), o \in CreateOutcomes :
       InitCreate(c, i, o)
  \/ \E c \in S : StartFanIn(c)
  \/ \E c \in S, i \in 1..Len(regions), o \in ListOutcomes :
       DeleteList(c, i, o)
  \/ \E c \in S, i \in 1..Len(regions), o \in DeleteOutcomes :
       DeleteStep(c, i, o)
  \/ \E c \in S : ShutdownFanIn(c)

\* what choice(self.endpoints) can return (not reached on an empty list)
Choices == IF endpoints = <<>> THEN {<<>>} ELSE SeqToSet(endpoints)

\* requests a caller sends through the pool
Methods == {"GET", "POST"}

Url(scheme, rest) == scheme \o SchemeSep \o rest

Urls ==
  {Url(<<"h">>, <<"e", ".", "c", "/", "f", "?", "x">>),
   Url(<<"h", "s">>, <<"e", ".", "c">>),
   Url(<<"h">>, <<"e", "/", "r", "=", "h", ":", "/", "/", "o">>),
   <<"e", ".", "c", "/", "f">>}

NoHeaderArg == [given |-> FALSE, map |-> NoHeaders]

HeaderArgs ==
  {NoHeaderArg,
   [given |-> TRUE, map |-> NoHeaders],
   [given |-> TRUE, map |-> [k \in {"X-Forwarded-For"} |-> <<10, 0, 0, 1>>]],
   [given |-> TRUE, map |-> [k \in {"Host", "Accept"} |-> <<"e", ".", "c">>]]}

\* IPv4Address._ALL_ONES, 2^32 - 1, as its two 16-bit halves
MAX_IPV4 == <<65535, 65535>>

\* values randint(0, MAX_IPV4) returns: 192.168.1.1 and MAX_IPV4
RandomInts == {<<49320, 257>>, MAX_IPV4}

Transports == {"ok", "error"}

\* a plain GET with no headers
SendPlain ==
  \E e \in Choices :
    Send("GET", Url(<<"h">>, <<"e", ".", "c", "/", "f", "?", "x">>),
         NoHeaderArg, e, <<0, 0>>, "ok")

\* any of the modelled requests
SendAny ==
  \E method \in Methods, url \in Urls, headers \in HeaderArgs,
     e \in Choices, transport \in Transports :
    \E ip \in IF headers.given /\ "X-Forwarded-For" \in DOMAIN headers.map
              THEN {MAX_IPV4} ELSE RandomInts :
      Send(method, url, headers, e, ip, transport)

\* callers that await each start() and shutdown() before the next
Next ==
  \/ Invoke({"c1"}, BOOLEAN, BOOLEAN, StartArgs, ShutdownArgs)
  \/ Work({"c1"})

Spec == Init /\ [][Next]_vars

\* callers that issue a call while another is running
NextOverlap ==
  \/ Invoke(Slots, BOOLEAN, {FALSE}, {NoArg}, {NoArg})
  \/ Work(Slots)
  \/ SendPlain

SpecOverlap == InitOverlap /\ [][NextOverlap]_vars

\* callers that reuse or provision a one-region pool and send requests of
\* every modelled shape through it
ReuseArgs ==
  StartArgs \cup {Given(<<EndpointOf(IdNames[1], Region1),
                          EndpointOf(IdNames[2], Region2)>>)}

NextDispatch ==
  \/ Invoke({"c1"}, {FALSE}, {FALSE}, ReuseArgs, {NoArg})
  \/ Work({"c1"})
  \/ SendAny

SpecDispatch == InitOverlap /\ [][NextDispatch]_vars

\* a caller that uses the pool in `async with` blocks, and start() and
\* shutdown() inside and outside of them
NextScoped ==
  \/ Invoke({"c1"}, BOOLEAN, {FALSE}, {NoArg}, {NoArg})
  \/ Work({"c1"})
  \/ \E c \in {"c1"} : Aenter(c)
  \/ \E c \in {"c1"}, failed \in BOOLEAN : Aexit(c, failed)

SpecScoped == Init /\ [][NextScoped]_vars

\* callers that overlap plain start() and shutdown() calls, never forcing
NextRace ==
  \/ Invoke(Slots, {FALSE}, {FALSE}, {NoArg}, {NoArg})
  \/ Work(Slots)

SpecRace == InitOverlap /\ [][NextRace]_vars

\* site strings a caller constructs pools with
SiteArgs == UNION {[1..n -> {"a", "/"}] : n \in 0..MaxSiteLen}

NextConstruct ==
  \/ \E s \in SiteArgs : NewPool(s)
  \/ Rebuild

SpecConstruct == Init /\ [][NextConstruct]_vars

\* ------------------------------------------------------------- properties
Tasks == 1..Len(regions)

\* the region label of an endpoint hostname
RegionOf(ep) == ep[3]

HasRegion(eps, r) == \E j \in 1..Len(eps) : RegionOf(eps[j]) = r

Names(r) == {provider[r][k].name : k \in 1..Len(provider[r])}

\* the number of REST APIs of region r whose name starts with the logical name
SiteCount(apis) ==
  Cardinality({k \in 1..Len(apis) : StartsWith(apis[k].name, api_name)})

\* C1: a send() issued while self.endpoints is empty fails with the
\* "No API Gateway endpoints initialized" RuntimeError and hands no request
\* to the transport, whatever the method, URL and headers are.
C1_PoolNotStarted ==
  (event.op = "send" /\ endpoints = <<>>)
    => (event.error = "RuntimeError" /\ event.request = NoRequest)

C1_Witness ==
  /\ event.op = "send" /\ endpoints = <<>>
  /\ event.error = "RuntimeError"

\* C2: start() and shutdown() return normally with every region task run to
\* its end; the list start() returns holds the endpoint of every task that
\* succeeded and the list shutdown() returns holds every id a task that
\* succeeded deleted, whichever sibling tasks failed.
C2_RegionIsolation ==
  /\ (event.op = "start_return" /\ event.dispatched > 0) =>
       \A i \in Tasks :
         /\ event.tasks[i].pc = "done"
         /\ event.tasks[i].res \in {"ok", "skip", "exc"}
         /\ event.tasks[i].res = "ok" =>
              event.tasks[i].endpoint \in SeqToSet(event.value)
  /\ event.op = "shutdown_return" =>
       \A i \in Tasks :
         /\ event.tasks[i].pc = "done"
         /\ event.tasks[i].res \in {"ids", "exc"}
         /\ event.tasks[i].res = "ids" =>
              SeqToSet(event.tasks[i].deleted) \subseteq SeqToSet(event.value)

C2_Witness ==
  /\ event.op = "start_return"
  /\ \E i, j \in Tasks :
       /\ event.tasks[i].res = "exc"
       /\ event.tasks[j].res = "ok"
       /\ event.tasks[j].endpoint \in SeqToSet(event.value)

\* C3: a start() without explicit endpoints on a pool of N regions dispatches
\* exactly N provisioning attempts and returns a list of at most N endpoints.
C3_AtMostN ==
  (event.op = "start_return" /\ ~UseExplicit(event.arg)) =>
    /\ event.dispatched = Len(regions)
    /\ Len(event.value) <= Len(regions)

\* C4: no step removes a REST API whose name is not exactly the logical
\* resource name: after any shutdown() the other tool's API and the APIs
\* whose names only start with the logical name are still in their regions.
C4_OnlyExactDeleted ==
  [][\A r \in RegionSet : \A k \in 1..Len(provider[r]) :
       provider[r][k].name # api_name =>
         \E j \in 1..Len(provider'[r]) : provider'[r][j] = provider[r][k]]_vars

C4_Witness ==
  /\ event.op = "shutdown_return"
  /\ event.value # <<>>
  /\ {ManualName, OtherName} \subseteq Names(Region1)

\* C5: a start(force=False) that follows a start(force=False) with no REST
\* API created or deleted in between creates nothing in a region the first
\* call obtained an endpoint from, and when that region contributes again it
\* reports new = False and the endpoint the first call had for it.
C5_IdempotentDiscovery ==
  /\ \A c \in Slots : \A i \in Tasks :
       (/\ calls[c].kind = "start" /\ ~calls[c].force
        /\ HasRegion(calls[c].before, regions[i])) =>
         /\ calls[c].tasks[i].pc # "create"
         /\ ~calls[c].tasks[i].created
  /\ (event.op = "start_return" /\ ~event.force) =>
       \A i \in Tasks :
         HasRegion(event.before, regions[i]) =>
           /\ ~event.tasks[i].created
           /\ event.tasks[i].res = "ok" =>
                /\ ~event.tasks[i].new
                /\ event.tasks[i].endpoint \in SeqToSet(event.before)

C5_Witness ==
  /\ event.op = "start_return" /\ ~event.force
  /\ Len(event.before) = 2
  /\ event.value = event.before
  /\ \A i \in Tasks : event.tasks[i].res = "ok" /\ ~event.tasks[i].new

\* the id of the first listed REST API whose name starts with the logical name
RECURSIVE FirstSiteId(_)
FirstSiteId(apis) ==
  IF apis = <<>> THEN ""
  ELSE IF StartsWith(Head(apis).name, api_name) THEN Head(apis).id
  ELSE FirstSiteId(Tail(apis))

\* C6 as stated: every region holds at most one REST API whose name starts
\* with the logical resource name, whatever start() and shutdown() calls were
\* made.
C6_AtMostOnePerRegion ==
  \A r \in RegionSet : SiteCount(provider[r]) <= 1

\* C6 as amended: after any sequence of start() and shutdown() calls, a step
\* adds at most one REST API of the site to a region, and a
\* start(force=False) adds one only to a region that holds none; a region
\* gets a second one only from start(force=True).
C6_OnlyForceDuplicates ==
  [][\A r \in RegionSet :
       SiteCount(provider'[r]) > SiteCount(provider[r]) =>
         /\ SiteCount(provider'[r]) = SiteCount(provider[r]) + 1
         /\ \/ SiteCount(provider[r]) = 0
            \/ \E c \in Slots : calls[c].kind = "start" /\ calls[c].force]_vars

C6_Witness ==
  /\ event.op = "start_return" /\ ~event.force
  /\ \E i \in Tasks :
       /\ event.tasks[i].res = "ok" /\ event.tasks[i].new
       /\ SiteCount(provider[regions[i]]) = 1
  /\ \E r \in RegionSet : ManualName \in Names(r)

\* C7: `async with` starts the pool on entry and runs shutdown() exactly once
\* when the body ends, whether it ended normally or by raising; the body's
\* exception reaches the caller once that shutdown() has returned.
C7_ScopedShutdownOnce ==
  /\ ctx.pc = "entering" =>
       \E c \in Slots : /\ calls[c].kind = "start" /\ calls[c].pc = "running"
                        /\ calls[c].owner = "ctx"
  /\ ctx.pc \in {"out", "entering", "body"} => ctx.shutdowns = 0
  /\ ctx.pc = "exiting" =>
       /\ ctx.shutdowns = 1 /\ ~ctx.raised
       /\ \E c \in Slots : /\ calls[c].kind = "shutdown"
                           /\ calls[c].pc = "running"
                           /\ calls[c].owner = "ctx"
  /\ ctx.pc = "done" => (ctx.shutdowns = 1 /\ ctx.raised = ctx.bodyFailed)

C7_Witness ==
  /\ ctx.pc = "done" /\ ctx.bodyFailed /\ ctx.raised /\ ctx.shutdowns = 1
  /\ event.op = "shutdown_return" /\ event.value # <<>>

\* C8: a start() given an explicit endpoint list, of any length, runs no
\* provisioning task, and the list becomes self.endpoints and the value
\* returned.
C8_ExplicitAdopted ==
  (event.op = "start_return" /\ event.arg.given) =>
    /\ event.dispatched = 0
    /\ event.value = event.arg.list
    /\ endpoints = event.arg.list

\* C9: in a deletion pass every REST API whose delete_rest_api raised
\* TooManyRequestsException cost one sleep, was not tried again, is not among
\* the ids returned and still exists, while the pass went on: the ids deleted
\* after it are returned by shutdown(), which returns normally.
C9_RateLimitSkips ==
  event.op = "shutdown_return" =>
    \A i \in Tasks :
      LET t == event.tasks[i]
      IN /\ t.pc = "done" /\ t.todo = <<>>
         /\ t.sleeps = Len(t.limited)
         /\ \A k \in 1..Len(t.limited) :
              /\ t.limited[k] \notin SeqToSet(t.deleted)
              /\ t.limited[k] \notin SeqToSet(event.value)
              /\ \E j \in 1..Len(provider[regions[i]]) :
                   provider[regions[i]][j].id = t.limited[k]
              /\ \A k2 \in 1..Len(t.limited) :
                   t.limited[k2] = t.limited[k] => k2 = k
         /\ t.res = "ids" => SeqToSet(t.deleted) \subseteq SeqToSet(event.value)

C9_Witness ==
  /\ event.op = "shutdown_return"
  /\ event.value = <<IdNames[2]>>
  /\ \E i \in Tasks :
       /\ event.tasks[i].limited = <<IdNames[1]>>
       /\ event.tasks[i].deleted = <<IdNames[2]>>
       /\ event.tasks[i].sleeps = 1

\* C10 as stated: a start(force=False) that finds a REST API of the site in a
\* region holding a manual-deletion API reuses a manual-deletion API.
C10_ManualReused ==
  (event.op = "start_return" /\ ~event.force) =>
    \A i \in Tasks :
      (/\ ManualName \in Names(regions[i])
       /\ event.tasks[i].res = "ok" /\ ~event.tasks[i].new) =>
        \E k \in 1..Len(provider[regions[i]]) :
          /\ provider[regions[i]][k].name = ManualName
          /\ event.tasks[i].endpoint =
               EndpointOf(provider[regions[i]][k].id, regions[i])

\* C10 as amended: a manual-deletion API is recognised by every later
\* start(force=False): a task whose listing of the region contains it creates
\* nothing and returns the first listed API of the site, which is the
\* manual-deletion one unless another API of the site is listed before it;
\* and no step, so no shutdown() with or without allow-list, deletes it.
C10_ManualKeptAndRecognised ==
  [][/\ \A c \in Slots : \A i \in Tasks :
          (/\ calls[c].kind = "start" /\ calls[c].tasks[i].pc = "list"
           /\ calls'[c].tasks[i].pc # "list"
           /\ ManualName \in Names(regions[i])) =>
            LET t == calls'[c].tasks[i]
                r == regions[i]
            IN /\ t.pc = "done" /\ ~t.created
               /\ t.res \in {"ok", "skip", "exc"}
               /\ t.res = "ok" =>
                    /\ ~t.new
                    /\ t.endpoint = EndpointOf(FirstSiteId(provider[r]), r)
     /\ \A r \in RegionSet : \A k \in 1..Len(provider[r]) :
          provider[r][k].name = ManualName =>
            \E j \in 1..Len(provider'[r]) :
              provider'[r][j] = provider[r][k]]_vars

C10_Witness ==
  /\ event.op = "start_return" /\ ~event.force
  /\ \E i \in Tasks :
       /\ event.tasks[i].res = "ok" /\ ~event.tasks[i].new
       /\ \E k \in 1..Len(provider[regions[i]]) :
            /\ provider[regions[i]][k].name = ManualName
            /\ event.tasks[i].endpoint =
                 EndpointOf(provider[regions[i]][k].id, regions[i])

\* url is scheme://host/path with a scheme free of ":" and a host free of "/"
IsSchemeHostPath(url, a, b) ==
  /\ a + 3 <= b /\ b < Len(url) + 1
  /\ SubSeq(url, a + 1, a + 3) = SchemeSep
  /\ \A k \in 1..a : url[k] # ":"
  /\ \A k \in (a + 4)..b : url[k] # "/"
  /\ b < Len(url) => url[b + 1] = "/"

\* C11: a send() on a non-empty pool with a URL scheme://host/path (or
\* scheme://host) hands the transport one request to
\* https://<e>/ProxyStage/<path> with e a member of self.endpoints, the
\* scheme and host gone, and the Host header equal to that e.
C11_Rewrite ==
  (event.op = "send" /\ endpoints # <<>>) =>
    \A a \in 1..Len(event.sent.url) : \A b \in 1..Len(event.sent.url) :
      IsSchemeHostPath(event.sent.url, a, b) =>
        LET url == event.sent.url
            path == IF b < Len(url) THEN SubSeq(url, b + 2, Len(url))
                    ELSE <<>>
            req == event.request
        IN /\ event.error \in {"", "TransportError"}
           /\ req.method = event.sent.method
           /\ Len(req.url) = 4
           /\ req.url[1] = "https://"
           /\ req.url[2] \in SeqToSet(endpoints)
           /\ req.url[3] = "/ProxyStage/"
           /\ req.url[4] = path
           /\ req.headers["Host"] = req.url[2]

C11_Witness ==
  /\ event.op = "send" /\ event.error = ""
  /\ event.sent.url = Url(<<"h">>, <<"e", ".", "c", "/", "f", "?", "x">>)
  /\ event.request.url =
       <<"https://", EndpointOf(IdNames[1], Region1), "/ProxyStage/",
         <<"f", "?", "x">> >>
  /\ event.request.headers["Host"] = EndpointOf(IdNames[1], Region1)
  /\ "Host" \in DOMAIN event.sent.headers

EndsWithSlash(s) == s # <<>> /\ s[Len(s)] = "/"

\* C12 as stated: the stored site of an input ending with a slash is the
\* input without exactly one trailing slash, and stripping a stored site
\* again yields the same site.
C12_StripIdempotent ==
  /\ (event.op = "init" /\ EndsWithSlash(event.sent.url)) =>
       event.value \o Slash = event.sent.url
  /\ event.op = "init_again" => event.value = event.sent.url

\* C12 as amended: the stored site is the input without exactly one trailing
\* slash when the input ends with a slash and the input itself otherwise;
\* stripping a stored site again yields the same site when the input did not
\* end with two slashes, and removes one more slash when it did.
C12_StripOne ==
  /\ event.op \in {"init", "init_again"} =>
       IF EndsWithSlash(event.sent.url)
       THEN event.value \o Slash = event.sent.url
       ELSE event.value = event.sent.url
  /\ event.op = "init_again" =>
       IF EndsWithSlash(event.before)
          /\ EndsWithSlash(SubSeq(event.before, 1, Len(event.before) - 1))
       THEN event.value \o Slash \o Slash = event.before
       ELSE event.value = event.sent.url

C12_Witness ==
  /\ event.op = "init_again"
  /\ event.before = <<"a", "/", "a", "/">>
  /\ event.sent.url = <<"a", "/", "a">>
  /\ event.value = <<"a", "/", "a">>

\* C13: start() and shutdown() return only when every region task they
\* dispatched has finished with a result or a failure; no task is in flight
\* outside a running invocation, and the provider's REST APIs change only by
\* a step of a task of an invocation that has not returned.
C13_FanInBarrier ==
  /\ [](/\ (event.op \in {"start_return", "shutdown_return"}
             /\ event.dispatched > 0) =>
              \A i \in Tasks : /\ event.tasks[i].pc = "done"
                               /\ event.tasks[i].res # "none"
        /\ \A c \in Slots : calls[c].pc # "running" =>
              \A i \in Tasks : calls[c].tasks[i].pc = "done")
  /\ [][provider' # provider =>
          \E c \in Slots : \E i \in Tasks :
            /\ calls[c].pc = "running" /\ calls'[c].pc = "running"
            /\ calls[c].tasks[i].pc \in {"create", "loop"}
            /\ calls'[c].tasks[i] # calls[c].tasks[i]]_vars

C13_Witness ==
  /\ event.op = "shutdown_return" /\ event.dispatched = 2
  /\ \A i \in Tasks : event.tasks[i].deleted # <<>>

\* C14: self.endpoints changes only on the step in which a start() returns,
\* so never while region tasks of a start() are running before and after the
\* step and never at the invocation; send() leaves it as it is.
C14_ChangedOnlyAtFanIn ==
  [][/\ endpoints' # endpoints => event'.op = "start_return"
     /\ \A c \in Slots :
          (/\ calls'[c].kind = "start" /\ calls'[c].pc = "running"
           /\ \E i \in Tasks : calls'[c].tasks[i].pc # "done") =>
            endpoints' = endpoints
     /\ event'.op = "send" => endpoints' = endpoints]_vars

\* C15 as stated: whatever the options of start(), the task of a region that
\* is not enabled returns a skip result, creates nothing and contributes no
\* endpoint, and a skip result comes from nothing else.
C15_DisabledSkips ==
  (event.op = "start_return" /\ event.dispatched > 0) =>
    \A i \in Tasks :
      /\ ~enabled[regions[i]] =>
           /\ event.tasks[i].res = "skip"
           /\ ~event.tasks[i].created
           /\ ~HasRegion(event.value, regions[i])
      /\ event.tasks[i].res = "skip" => ~enabled[regions[i]]

\* C15 as amended: the task of a region that is not enabled creates nothing
\* and contributes no endpoint, and start() returns normally; without force
\* the task returns a skip result, with force it makes no listing and fails
\* on the create call. A skip result comes from nothing else: any other
\* listing error makes the task fail.
C15_DisabledSkipsUnlessForce ==
  /\ \A r \in RegionSet : ~enabled[r] => provider[r] = <<>>
  /\ (event.op = "start_return" /\ event.dispatched > 0) =>
       \A i \in Tasks :
         /\ ~enabled[regions[i]] =>
              /\ event.tasks[i].res = IF event.force THEN "exc" ELSE "skip"
              /\ ~event.tasks[i].created
              /\ ~HasRegion(event.value, regions[i])
         /\ event.tasks[i].res = "skip" =>
              (~enabled[regions[i]] /\ ~event.force)

C15_Witness ==
  /\ event.op = "start_return" /\ ~event.force
  /\ \E i, j \in Tasks :
       /\ ~enabled[regions[i]] /\ event.tasks[i].res = "skip"
       /\ event.tasks[j].res = "ok" /\ event.tasks[j].new
  /\ Len(event.value) = 1

\* the ids of the REST APIs of region r named exactly the logical name
ExactIds(r) ==
  {provider[r][k].id :
     k \in {k \in 1..Len(provider[r]) : provider[r][k].name = api_name}}

\* the first dot-separated labels of an allow-list
AllowIds(arg) == {arg.list[j][1] : j \in 1..Len(arg.list)}

\* C16: a shutdown() given an allow-list, empty or not, removes only REST
\* APIs named exactly the logical name whose id is the first label of an
\* allow-listed endpoint, and returns only such ids; exactly named APIs with
\* other ids stay; the candidates of a region task are the exactly named
\* APIs of its listing, all of them when no allow-list is given.
C16_AllowList ==
  [][/\ \A c \in Slots :
          (calls[c].kind = "shutdown" /\ calls[c].pc = "running") =>
            LET arg == calls[c].arg
            IN /\ \A r \in RegionSet : \A k \in 1..Len(provider[r]) :
                    (\A j \in 1..Len(provider'[r]) :
                       provider'[r][j] # provider[r][k]) =>
                      /\ provider[r][k].name = api_name
                      /\ arg.given => provider[r][k].id \in AllowIds(arg)
               /\ \A i \in Tasks :
                    (/\ calls[c].tasks[i].pc = "list"
                     /\ calls'[c].tasks[i].pc # "list"
                     /\ calls'[c].tasks[i].res # "exc") =>
                      SeqToSet(calls'[c].tasks[i].todo) =
                        IF arg.given
                        THEN ExactIds(regions[i]) \cap AllowIds(arg)
                        ELSE ExactIds(regions[i])
     /\ (event'.op = "shutdown_return" /\ event'.arg.given) =>
          SeqToSet(event'.value) \subseteq AllowIds(event'.arg)]_vars

C16_Witness ==
  /\ event.op = "shutdown_return" /\ event.arg.given
  /\ event.value = <<IdNames[3]>>
  /\ IdNames[1] \in ExactIds(Region1)
  /\ IdNames[1] \notin AllowIds(event.arg)

\* the ids of the REST APIs of region r
IdsIn(apis) == {apis[k].id : k \in 1..Len(apis)}

\* C17: in a deletion pass an id is appended to the returned list exactly
\* when its delete call removed the REST API; a delete call that failed
\* leaves the API at the provider and the list as it was, and the pass goes
\* on with the remaining candidates; shutdown() returns exactly the ids its
\* passes deleted.
C17_ReturnsDeleted ==
  [][/\ \A c \in Slots : \A i \in Tasks :
          (/\ calls[c].kind = "shutdown" /\ calls[c].tasks[i].pc = "loop"
           /\ calls'[c].tasks[i] # calls[c].tasks[i]) =>
            LET t == calls[c].tasks[i]
                u == calls'[c].tasks[i]
                r == regions[i]
                id == Head(t.todo)
            IN /\ u.todo = Tail(t.todo)
               /\ u.pc = IF Tail(t.todo) = <<>> THEN "done" ELSE "loop"
               /\ u.pc = "done" => u.res = "ids"
               /\ IF id \in IdsIn(provider[r]) \ IdsIn(provider'[r])
                  THEN u.deleted = Append(t.deleted, id)
                  ELSE /\ u.deleted = t.deleted
                       /\ provider' = provider
     /\ event'.op = "shutdown_return" =>
          /\ \A i \in Tasks :
               SeqToSet(event'.tasks[i].deleted) \subseteq
                 SeqToSet(event'.value)
          /\ \A k \in 1..Len(event'.value) :
               /\ \E i \in Tasks :
                    event'.value[k] \in SeqToSet(event'.tasks[i].deleted)
               /\ \A r \in RegionSet :
                    event'.value[k] \notin IdsIn(provider'[r])
               /\ \A k2 \in 1..Len(event'.value) :
                    event'.value[k2] = event'.value[k] => k2 = k]_vars

C17_Witness ==
  /\ event.op = "shutdown_return"
  /\ event.value = <<IdNames[1], IdNames[3]>>
  /\ IdNames[2] \in ExactIds(Region1)
  /\ \E i \in Tasks : /\ event.tasks[i].deleted = event.value
                       /\ event.tasks[i].limited = <<>>

\* C18: once overlapping start() calls without explicit endpoints have all
\* returned, self.endpoints holds at most one endpoint per configured region,
\* none twice, and no region holds more than one REST API of the site.
C18_OverlapSafe ==
  (\A c \in Slots : calls[c].pc # "running") =>
    /\ Len(endpoints) <= Len(regions)
    /\ \A j, k \in 1..Len(endpoints) : endpoints[j] = endpoints[k] => j = k
    /\ \A i \in Tasks : SiteCount(provider[regions[i]]) <= 1

\* C19: no step of a shutdown(), from its invocation to its return, changes
\* self.endpoints, whatever it deleted; a send() on the list it leaves
\* behind does not fail with the "No API Gateway endpoints initialized"
\* RuntimeError.
C19_ShutdownKeepsList ==
  [][/\ (\E c \in Slots :
           /\ calls'[c] # calls[c]
           /\ calls[c].kind = "shutdown" \/ calls'[c].kind = "shutdown") =>
          endpoints' = endpoints
     /\ (event'.op = "send" /\ endpoints # <<>>) =>
          event'.error # "RuntimeError"]_vars

C19_Witness ==
  /\ event.op = "send" /\ event.error = ""
  /\ endpoints = <<EndpointOf(IdNames[1], Region1)>>
  /\ event.request.url[2] = EndpointOf(IdNames[1], Region1)
  /\ IdNames[1] \notin IdsIn(provider[Region1])
  /\ nextId = 2

\* C20: when a shutdown() without allow-list returns, every configured region
\* being enabled and no listing and no delete call of it having failed, no
\* REST API named exactly the logical name is left in a configured region,
\* however many a region held.
C20_CompleteCleanup ==
  (/\ event.op = "shutdown_return" /\ ~event.arg.given
   /\ \A i \in Tasks :
        /\ enabled[regions[i]]
        /\ event.tasks[i].res = "ids"
        /\ event.tasks[i].limited = <<>>
        /\ event.tasks[i].failed = <<>>) =>
    \A i \in Tasks : ExactIds(regions[i]) = {}

C20_Witness ==
  /\ event.op = "shutdown_return" /\ ~event.arg.given
  /\ \A i \in Tasks :
       /\ enabled[regions[i]] /\ event.tasks[i].res = "ids"
       /\ event.tasks[i].limited = <<>> /\ event.tasks[i].failed = <<>>
       /\ ExactIds(regions[i]) = {}
  /\ \E i \in Tasks : Len(event.tasks[i].deleted) = 2
  /\ Len(event.value) = 3

====
